---- MODULE Spec2Model ----
(***************************************************************************)
(* The room registry and the WebSocket relay of src/server.js              *)
(* (lines 306-376): the 'connection', 'message' and 'close' handlers, the  *)
(* registry helpers getRoomBucket / broadcastToRemotes / forwardToTVs, and *)
(* the JSON conversions the handlers apply to what they receive and send.  *)
(*                                                                         *)
(* Every handler runs to completion (single-threaded event loop), so each  *)
(* handler is one action.  A WebSocket object is created once, gets one    *)
(* 'connection' event and at most one 'close' event; objects are numbered  *)
(* in the order of their 'connection' events, so increasing number is the  *)
(* insertion order a JavaScript Set iterates in.                           *)
(***************************************************************************)
EXTENDS Integers, Sequences, FiniteSets, TLC

\* Number of WebSocket objects the server sees in one run.
MaxConn == 2

\* Upper length of a room key in the pattern ^[a-z0-9_-]{1,64}$.
MaxRoomLen == 64

\* Close code sent for a missing or invalid room.
PolicyViolation == 1008

Conns == 1 .. MaxConn

VARIABLES
  rooms,   \* the Map room -> {tvs, remotes}: a function whose DOMAIN is the keys
  conns,   \* per WebSocket: readyState, the handler closure's role and room,
           \* whether 'message'/'close' listeners were registered, close code sent
  sent,    \* the ws.send calls of the handler that ran last, in call order
  last,    \* the event that handler was run for, with its input
  http,    \* the HTTP side: the /videos/ request in progress, its response,
           \* the read stream's file handle, the handles open in the process
  lastStatus,  \* per WebSocket, the tvConnected of the last status sent to it
  wire     \* the sockets' byte streams: messages the clients have written and
           \* the server has not read yet, and what the server wrote to each

relay == <<rooms, conns, sent, last>>

vars == <<rooms, conns, sent, last, http, lastStatus, wire>>

----------------------------------------------------------------------------
(* Strings of the query: a room is a sequence of one-character strings.    *)

UpperChars == <<"A","B","C","D","E","F","G","H","I","J","K","L","M",
                "N","O","P","Q","R","S","T","U","V","W","X","Y","Z">>
LowerChars == <<"a","b","c","d","e","f","g","h","i","j","k","l","m",
                "n","o","p","q","r","s","t","u","v","w","x","y","z">>
DigitChars == {"0","1","2","3","4","5","6","7","8","9"}

\* One character of String.prototype.toLowerCase (ASCII).
LowerChar(ch) ==
  IF \E i \in 1 .. Len(UpperChars) : UpperChars[i] = ch
  THEN LowerChars[CHOOSE i \in 1 .. Len(UpperChars) : UpperChars[i] = ch]
  ELSE ch

toLowerCase(s) == [i \in 1 .. Len(s) |-> LowerChar(s[i])]

\* A query parameter: present with a value, or absent (undefined).
Param(v) == [has |-> TRUE, v |-> v]
NoRole == [has |-> FALSE, v |-> ""]
NoRoom == [has |-> FALSE, v |-> <<>>]

\* String(query.role || ''), String(query.room || '')
StringOr(q, empty) == IF q.has /\ q.v # empty THEN q.v ELSE empty

\* The character class [a-z0-9_-].
RoomCharClass == {LowerChars[i] : i \in 1 .. Len(LowerChars)} \cup DigitChars \cup {"_", "-"}

ValidRoom_NoUpperBound(room) ==
  /\ Len(room) >= 1
  /\ \A i \in 1 .. Len(room) : room[i] \in RoomCharClass

\* !(!room || !/^[a-z0-9_-]{1,64}$/.test(room))
ValidRoom(room) ==
  /\ room # <<>>
  /\ Len(room) >= 1
  /\ Len(room) <= MaxRoomLen
  /\ \A i \in 1 .. Len(room) : room[i] \in RoomCharClass

----------------------------------------------------------------------------
(* JSON.  A payload on the wire is text; its values are literals (Lit).    *)
(* JSON.parse turns literals into JavaScript values (Val), JSON.stringify  *)
(* turns values back into literals.  An object is a function from Keys;    *)
(* a key the object does not have carries the absent literal / undefined.  *)

Keys == {"type", "action", "value", "paused", "muted", "volume", "rate",
         "current", "time", "duration", "tvConnected"}

Lit(l, n, s) == [lit |-> l, n |-> n, s |-> s]
LAbsent   == Lit("absent", 0, "")
LNull     == Lit("null", 0, "")
LTrue     == Lit("true", 0, "")
LFalse    == Lit("false", 0, "")
LNum(n)   == Lit("num", n, "")
LOverflow == Lit("overflow", 0, "")      \* a number literal such as 1e999
LStr(s)   == Lit("str", 0, s)

Val(t, n, s) == [t |-> t, n |-> n, s |-> s]
Undefined  == Val("undefined", 0, "")
Null       == Val("null", 0, "")
Bool(b)    == Val("boolean", IF b THEN 1 ELSE 0, "")
Num(n)     == Val("number", n, "")
Infinity   == Val("Infinity", 0, "")     \* typeof "number", not finite
Str(s)     == Val("string", 0, s)

parseLit(x) ==
  CASE x.lit = "num"      -> Num(x.n)
    [] x.lit = "overflow" -> Infinity
    [] x.lit = "str"      -> Str(x.s)
    [] x.lit = "true"     -> Bool(TRUE)
    [] x.lit = "false"    -> Bool(FALSE)
    [] x.lit = "null"     -> Null
    [] OTHER              -> Undefined

\* JSON.parse(raw): throws on text that is not JSON; the text null parses to
\* null, an object text to an object.
JSONparse(raw) ==
  CASE raw.syntax = "object" ->
         [ok |-> TRUE, isObject |-> TRUE,
          fields |-> [k \in Keys |-> parseLit(raw.fields[k])]]
    [] raw.syntax = "null" ->
         [ok |-> TRUE, isObject |-> FALSE, fields |-> [k \in Keys |-> Undefined]]
    [] OTHER ->
         [ok |-> FALSE, isObject |-> FALSE, fields |-> [k \in Keys |-> Undefined]]

stringifyVal(v) ==
  CASE v.t = "number"   -> LNum(v.n)
    [] v.t = "Infinity" -> LNull
    [] v.t = "string"   -> LStr(v.s)
    [] v.t = "boolean"  -> IF v.n = 1 THEN LTrue ELSE LFalse
    [] v.t = "null"     -> LNull
    [] OTHER            -> LAbsent

\* JSON.stringify(payload) of an object: undefined properties are left out.
JSONstringify(obj) == [k \in Keys |-> stringifyVal(obj[k])]

\* msg?.key
Get(msg, k) == IF msg.isObject THEN msg.fields[k] ELSE Undefined

\* Number.isFinite(v)
isFinite(v) == v.t = "number"

\* !!v
Truthy(v) ==
  CASE v.t = "boolean"  -> v.n = 1
    [] v.t = "number"   -> v.n # 0
    [] v.t = "Infinity" -> TRUE
    [] v.t = "string"   -> v.s # ""
    [] OTHER            -> FALSE

EmptyObject == [k \in Keys |-> Undefined]

\* { type: 'status', tvConnected: b }
statusPayload(b) ==
  [EmptyObject EXCEPT !["type"] = Str("status"), !["tvConnected"] = Bool(b)]

tvStatePayload_NoFiniteCheck(msg) ==
  [EmptyObject EXCEPT
     !["type"]     = Str("tv_state"),
     !["paused"]   = Bool(Truthy(Get(msg, "paused"))),
     !["muted"]    = Bool(Truthy(Get(msg, "muted"))),
     !["volume"]   = Get(msg, "volume"),
     !["rate"]     = Get(msg, "rate"),
     !["current"]  = IF Truthy(Get(msg, "current")) THEN Get(msg, "current") ELSE Undefined,
     !["time"]     = Get(msg, "time"),
     !["duration"] = Get(msg, "duration")]

\* The object literal the 'message' handler broadcasts for a TV's state.
tvStatePayload(msg) ==
  [EmptyObject EXCEPT
     !["type"]     = Str("tv_state"),
     !["paused"]   = Bool(Truthy(Get(msg, "paused"))),
     !["muted"]    = Bool(Truthy(Get(msg, "muted"))),
     !["volume"]   = IF isFinite(Get(msg, "volume")) THEN Get(msg, "volume") ELSE Undefined,
     !["rate"]     = IF isFinite(Get(msg, "rate")) THEN Get(msg, "rate") ELSE Undefined,
     !["current"]  = IF Truthy(Get(msg, "current")) THEN Get(msg, "current") ELSE Undefined,
     !["time"]     = IF isFinite(Get(msg, "time")) THEN Get(msg, "time") ELSE Undefined,
     !["duration"] = IF isFinite(Get(msg, "duration")) THEN Get(msg, "duration") ELSE Undefined]

\* const allowed = [...]
allowed == {"play", "pause", "playpause", "stop", "seek", "seekTo", "seek_percent",
            "volume_set", "mute", "unmute", "toggle_mute", "rate_set", "fullscreen",
            "exit_fullscreen", "load"}

\* allowed.includes(v)
allowedIncludes(v) == v.t = "string" /\ v.s \in allowed

----------------------------------------------------------------------------
(* The registry.                                                           *)

\* rooms.set(room, { tvs: new Set(), remotes: new Set() }) when absent
getRoomBucket(rs, room) ==
  IF room \in DOMAIN rs THEN rs
  ELSE (room :> [tvs |-> {}, remotes |-> {}]) @@ rs

\* rooms.delete(room)
roomsDelete(rs, room) == [r \in DOMAIN rs \ {room} |-> rs[r]]

\* for (const ws of set) ... ws.send(data): the members in insertion order
RECURSIVE sendEach(_, _)
sendEach(targets, data) ==
  IF targets = {} THEN <<>>
  ELSE LET ws == CHOOSE c \in targets : \A d \in targets : c <= d
       IN <<[to |-> ws, data |-> data]>> \o sendEach(targets \ {ws}, data)

\* ws.readyState === WebSocket.OPEN
isOpen(cs, ws) == cs[ws].readyState = "OPEN"

broadcastToRemotes(rs, cs, room, payload) ==
  IF room \notin DOMAIN rs THEN <<>>
  ELSE sendEach({ws \in rs[room].remotes : isOpen(cs, ws)}, JSONstringify(payload))

forwardToTVs(rs, cs, room, payload) ==
  IF room \notin DOMAIN rs THEN <<>>
  ELSE sendEach({ws \in rs[room].tvs : isOpen(cs, ws)}, JSONstringify(payload))

----------------------------------------------------------------------------
(* wss.on('connection')                                                    *)

\* bucket.tvs.add(ws) / bucket.remotes.add(ws)
joinBucket(bucket, role, ws) ==
  IF role = "tv"
  THEN [bucket EXCEPT !.tvs = @ \cup {ws}]
  ELSE [bucket EXCEPT !.remotes = @ \cup {ws}]

joinSends_NoTvBroadcast(rs, cs, role, room, ws) ==
  IF role = "tv"
  THEN <<>>
  ELSE <<[to |-> ws, data |-> JSONstringify(statusPayload(Cardinality(rs[room].tvs) > 0))]>>

joinSends_RemotesSize(rs, cs, role, room, ws) ==
  IF role = "tv"
  THEN broadcastToRemotes(rs, cs, room, statusPayload(TRUE))
  ELSE <<[to |-> ws, data |-> JSONstringify(statusPayload(Cardinality(rs[room].remotes) > 0))]>>

\* The sends of the join: the status broadcast of a TV, the status reply to
\* anything else.  rs is the registry after the add.
joinSends(rs, cs, role, room, ws) ==
  IF role = "tv"
  THEN broadcastToRemotes(rs, cs, room, statusPayload(TRUE))
  ELSE <<[to |-> ws, data |-> JSONstringify(statusPayload(Cardinality(rs[room].tvs) > 0))]>>

----------------------------------------------------------------------------
(* ws.on('message')                                                        *)

onMessage_ReplyOnParseError(rs, cs, ws, role, room, raw) ==
  LET p == JSONparse(raw) IN
  IF ~p.ok THEN <<[to |-> ws, data |-> JSONstringify(statusPayload(FALSE))]>>
  ELSE IF role = "tv" /\ Get(p, "type") = Str("state")
  THEN broadcastToRemotes(rs, cs, room, tvStatePayload(p))
  ELSE IF role # "tv" /\ Get(p, "type") = Str("command")
  THEN IF allowedIncludes(Get(p, "action")) THEN forwardToTVs(rs, cs, room, p.fields) ELSE <<>>
  ELSE <<>>

onMessage_NoRoleGate(rs, cs, ws, role, room, raw) ==
  LET p == JSONparse(raw) IN
  IF ~p.ok THEN <<>>
  ELSE IF role = "tv" /\ Get(p, "type") = Str("state")
  THEN broadcastToRemotes(rs, cs, room, tvStatePayload(p))
  ELSE IF Get(p, "type") = Str("command")
  THEN IF allowedIncludes(Get(p, "action")) THEN forwardToTVs(rs, cs, room, p.fields) ELSE <<>>
  ELSE <<>>

\* The sends of the 'message' handler of ws, whose closure holds role and room.
onMessage(rs, cs, ws, role, room, raw) ==
  LET p == JSONparse(raw) IN
  IF ~p.ok THEN <<>>
  ELSE IF role = "tv" /\ Get(p, "type") = Str("state")
  THEN broadcastToRemotes(rs, cs, room, tvStatePayload(p))
  ELSE IF role # "tv" /\ Get(p, "type") = Str("command")
  THEN IF allowedIncludes(Get(p, "action")) THEN forwardToTVs(rs, cs, room, p.fields) ELSE <<>>
  ELSE <<>>

----------------------------------------------------------------------------
(* ws.on('close')                                                          *)

leaveBucket_TvsOnly(bucket, ws) == [bucket EXCEPT !.tvs = @ \ {ws}]

\* bucket.tvs.delete(ws); bucket.remotes.delete(ws)
leaveBucket(bucket, ws) ==
  [tvs |-> bucket.tvs \ {ws}, remotes |-> bucket.remotes \ {ws}]

closeStatus_Never(rs, cs, room) == <<>>

\* if (bucket.tvs.size === 0) broadcastToRemotes(room, {status, false})
closeStatus(rs, cs, room) ==
  IF Cardinality(rs[room].tvs) = 0
  THEN broadcastToRemotes(rs, cs, room, statusPayload(FALSE))
  ELSE <<>>

closeCleanup_Keep(rs, room) == rs

closeCleanup_TvsOnly(rs, room) ==
  IF Cardinality(rs[room].tvs) = 0 THEN roomsDelete(rs, room) ELSE rs

\* if (bucket.tvs.size === 0 && bucket.remotes.size === 0) rooms.delete(room)
closeCleanup(rs, room) ==
  IF Cardinality(rs[room].tvs) = 0 /\ Cardinality(rs[room].remotes) = 0
  THEN roomsDelete(rs, room)
  ELSE rs

\* The 'close' handler of ws: the registry and the sends it leaves.
onClose(rs, cs, ws, room) ==
  IF room \notin DOMAIN rs THEN [rooms |-> rs, sent |-> <<>>]
  ELSE LET left == [rs EXCEPT ![room] = leaveBucket(@, ws)]
       IN [rooms |-> closeCleanup(left, room), sent |-> closeStatus(left, cs, room)]

----------------------------------------------------------------------------
(* Strings and numbers of the HTTP side.  A string is a sequence of        *)
(* one-character strings; a number is an integer or NaN.                   *)

DigitSeq == <<"0","1","2","3","4","5","6","7","8","9">>

NaN == [nan |-> TRUE, v |-> 0]
Number(v) == [nan |-> FALSE, v |-> v]

\* isNaN(x)
isNaN(x) == x.nan

DigitValue(ch) == (CHOOSE i \in 1 .. 10 : DigitSeq[i] = ch) - 1

\* The longest prefix of s made of decimal digits.
RECURSIVE DigitPrefix(_)
DigitPrefix(s) ==
  IF s # <<>> /\ s[1] \in DigitChars THEN <<s[1]>> \o DigitPrefix(Tail(s)) ELSE <<>>

RECURSIVE DecimalValue(_)
DecimalValue(ds) ==
  IF ds = <<>> THEN 0
  ELSE 10 * DecimalValue(SubSeq(ds, 1, Len(ds) - 1)) + DigitValue(ds[Len(ds)])

RECURSIVE TrimStart(_)
TrimStart(s) == IF s # <<>> /\ s[1] = " " THEN TrimStart(Tail(s)) ELSE s

\* parseInt(s, 10): leading blanks, an optional sign, then the longest run of
\* digits; NaN when there is no digit.
parseInt(s) ==
  LET t == TrimStart(s)
      signed == t # <<>> /\ t[1] \in {"+", "-"}
      ds == DigitPrefix(IF signed THEN Tail(t) ELSE t)
  IN IF ds = <<>> THEN NaN
     ELSE Number(IF signed /\ t[1] = "-" THEN 0 - DecimalValue(ds) ELSE DecimalValue(ds))

\* `${n}` for an integer n
RECURSIVE Decimal(_)
Decimal(n) ==
  IF n < 0 THEN <<"-">> \o Decimal(0 - n)
  ELSE IF n < 10 THEN <<DigitSeq[n + 1]>>
  ELSE Decimal(n \div 10) \o <<DigitSeq[(n % 10) + 1]>>

\* s.startsWith(p)
startsWith(s, p) == Len(s) >= Len(p) /\ SubSeq(s, 1, Len(p)) = p

\* s.replace(p, ''): the first occurrence of p is removed
removeFirst(s, p) ==
  LET at == {i \in 1 .. Len(s) - Len(p) + 1 : SubSeq(s, i, i + Len(p) - 1) = p}
  IN IF at = {} THEN s
     ELSE LET i == CHOOSE j \in at : \A k \in at : j <= k
          IN SubSeq(s, 1, i - 1) \o SubSeq(s, i + Len(p), Len(s))

\* s.split(sep) for a one-character separator: the pieces, in order
RECURSIVE split(_, _)
split(s, sep) ==
  LET at == {i \in 1 .. Len(s) : s[i] = sep}
  IN IF at = {} THEN <<s>>
     ELSE LET i == CHOOSE j \in at : \A k \in at : j <= k
          IN <<SubSeq(s, 1, i - 1)>> \o split(SubSeq(s, i + 1, Len(s)), sep)

\* parts.join(sep)
RECURSIVE join(_, _)
join(parts, sep) ==
  IF parts = <<>> THEN <<>>
  ELSE IF Len(parts) = 1 THEN parts[1]
  ELSE parts[1] \o <<sep>> \o join(Tail(parts), sep)

Min(a, b) == IF a <= b THEN a ELSE b
Max(a, b) == IF a >= b THEN a ELSE b

\* 1024 * 1024
MiB == 1048576

BytesEq == <<"b","y","t","e","s","=">>

----------------------------------------------------------------------------
(* streamVideo                                                             *)

rangeWindow_NoEndClamp(range, fileSize) ==
  LET parts == split(removeFirst(range, BytesEq), "-")
      startStr == parts[1]
      endFalsy == Len(parts) < 2 \/ parts[2] = <<>>
      start0 == parseInt(startStr)
      end0 == IF endFalsy THEN Number(fileSize - 1) ELSE parseInt(parts[2])
      start1 == IF isNaN(start0) THEN 0 ELSE start0.v
      end1 == IF isNaN(end0) THEN Min(start1 + MiB - 1, fileSize - 1) ELSE end0.v
  IN [start |-> Max(0, start1), end |-> end1]

\* Lines 186-193: start and end of the window of a Range header that starts
\* with bytes=.
rangeWindow(range, fileSize) ==
  LET parts == split(removeFirst(range, BytesEq), "-")
      startStr == parts[1]
      endFalsy == Len(parts) < 2 \/ parts[2] = <<>>
      start0 == parseInt(startStr)
      end0 == IF endFalsy THEN Number(fileSize - 1) ELSE parseInt(parts[2])
      start1 == IF isNaN(start0) THEN 0 ELSE start0.v
      end1 == IF isNaN(end0) THEN Min(start1 + MiB - 1, fileSize - 1) ELSE end0.v
  IN [start |-> Max(0, start1), end |-> Min(end1, fileSize - 1)]

\* `bytes ${start}-${end}/${fileSize}`
contentRange(start, end, fileSize) ==
  <<"b","y","t","e","s"," ">> \o Decimal(start) \o <<"-">> \o Decimal(end)
    \o <<"/">> \o Decimal(fileSize)

responseStatus_RangeFirst(stats, range) ==
  IF range.has /\ ~startsWith(range.v, BytesEq) THEN 416
  ELSE IF stats.err \/ ~stats.isFile THEN 404
  ELSE IF ~range.has \/ range.v = <<>> THEN 200
  ELSE 206

\* The status the fs.stat callback passes to writeHead.
responseStatus(stats, range) ==
  IF stats.err \/ ~stats.isFile THEN 404
  ELSE IF ~range.has \/ range.v = <<>> THEN 200
  ELSE IF ~startsWith(range.v, BytesEq) THEN 416
  ELSE 206

NoWindow == [start |-> 0, end |-> 0]

\* What the fs.stat callback writes: the status, the headers of writeHead,
\* and the options it gives to fs.createReadStream (stream "none" when it
\* opens no stream, "whole" for the whole file, "window" for {start, end}).
statCallback(stats, range) ==
  LET status == responseStatus(stats, range) IN
  CASE status = 200 ->
         [status |-> 200, contentLength |-> stats.size, acceptRanges |-> TRUE,
          contentRange |-> <<>>, stream |-> "whole", window |-> NoWindow]
    [] status = 206 ->
         LET w == rangeWindow(range.v, stats.size) IN
         [status |-> 206, contentLength |-> w.end - w.start + 1, acceptRanges |-> TRUE,
          contentRange |-> contentRange(w.start, w.end, stats.size),
          stream |-> "window", window |-> w]
    [] OTHER ->
         [status |-> status, contentLength |-> 0, acceptRanges |-> FALSE,
          contentRange |-> <<>>, stream |-> "none", window |-> NoWindow]

\* fs.createReadStream(path, {start, end}) throws ERR_OUT_OF_RANGE for a
\* negative end and for start > end.
createReadStreamThrows(w) == w.end < 0 \/ w.start > w.end

----------------------------------------------------------------------------
(* Paths.  A path or URL string is a sequence of tokens: "/" is the        *)
(* separator, "%2F" and "%2e%2e" are the percent-encoded "/" and "..",     *)
(* every other token is a run of characters without separator.             *)

\* decodeURIComponent(s)
decodeURIComponent(s) ==
  [i \in 1 .. Len(s) |-> CASE s[i] = "%2F"    -> "/"
                           [] s[i] = "%2e%2e" -> ".."
                           [] OTHER           -> s[i]]

\* parts.map(decodeURIComponent)
decodeEach(parts) == [i \in 1 .. Len(parts) |-> decodeURIComponent(parts[i])]

\* normalizeString of path.posix: "." and empty segments are dropped, ".."
\* removes the segment before it, or is kept when allowed above the root.
RECURSIVE normalizeSegments(_, _, _)
normalizeSegments(segs, acc, allowAboveRoot) ==
  IF segs = <<>> THEN acc
  ELSE LET seg == segs[1]
           rest == Tail(segs)
       IN IF seg = <<>> \/ seg = <<".">> THEN normalizeSegments(rest, acc, allowAboveRoot)
          ELSE IF seg = <<"..">>
          THEN IF acc # <<>> /\ acc[Len(acc)] # <<"..">>
               THEN normalizeSegments(rest, SubSeq(acc, 1, Len(acc) - 1), allowAboveRoot)
               ELSE IF allowAboveRoot
               THEN normalizeSegments(rest, Append(acc, seg), allowAboveRoot)
               ELSE normalizeSegments(rest, acc, allowAboveRoot)
          ELSE normalizeSegments(rest, Append(acc, seg), allowAboveRoot)

\* path.normalize(p) (POSIX)
pathNormalize(p) ==
  IF p = <<>> THEN <<".">>
  ELSE LET isAbsolute == p[1] = "/"
           trailing == p[Len(p)] = "/"
           body == join(normalizeSegments(split(p, "/"), <<>>, ~isAbsolute), "/")
       IN IF body = <<>>
          THEN (IF isAbsolute THEN <<"/">> ELSE IF trailing THEN <<".", "/">> ELSE <<".">>)
          ELSE (IF isAbsolute THEN <<"/">> ELSE <<>>) \o body
               \o (IF trailing THEN <<"/">> ELSE <<>>)

\* path.join(a, b)
pathJoin(a, b) ==
  IF b = <<>> THEN pathNormalize(a) ELSE pathNormalize(a \o <<"/">> \o b)

\* s.replace(/^(\.\.(\/|\\|$))+/, '')
RECURSIVE stripLeadingDotDot(_)
stripLeadingDotDot(s) ==
  IF s = <<"..">> THEN <<>>
  ELSE IF Len(s) >= 2 /\ s[1] = ".." /\ s[2] \in {"/", "\\"}
  THEN stripLeadingDotDot(SubSeq(s, 3, Len(s)))
  ELSE s

\* const ROOT = __dirname
ROOT == <<"/", "app">>

\* const DEFAULT_VIDEO_DIR = path.join(ROOT, 'videos')
DEFAULT_VIDEO_DIR == pathJoin(ROOT, <<"videos">>)

VideosPrefix == <<"/", "videos", "/">>

\* Lines 287-293: the absolute path of a pathname with at least four parts.
resolveVideoPath(pathname) ==
  LET parts == decodeEach(split(pathname, "/"))
      roomKey == parts[3]
      filename == join(SubSeq(parts, 4, Len(parts)), "/")
      safeName == stripLeadingDotDot(pathNormalize(filename))
      dir == IF roomKey = <<"_default">> THEN DEFAULT_VIDEO_DIR
             ELSE pathJoin(DEFAULT_VIDEO_DIR, roomKey)
  IN pathJoin(dir, safeName)

\* pathname.split('/').length >= 4
hasFourParts(pathname) == Len(split(pathname, "/")) >= 4

----------------------------------------------------------------------------
(* The file system the server runs on, and fs.stat.                        *)

File(size) == [kind |-> "file", size |-> size]
Directory == [kind |-> "directory", size |-> 0]

FS ==
  ( DEFAULT_VIDEO_DIR :> Directory )
  @@ ( DEFAULT_VIDEO_DIR \o <<"/", "big.mp4">> :> File(3 * MiB) )
  @@ ( DEFAULT_VIDEO_DIR \o <<"/", "a">> :> Directory )
  @@ ( DEFAULT_VIDEO_DIR \o <<"/", "a", "/", "x.mp4">> :> File(1000) )
  @@ ( DEFAULT_VIDEO_DIR \o <<"/", "a", "/", "empty.mp4">> :> File(0) )
  @@ ( ROOT \o <<"/", "server.js">> :> File(380) )
  @@ ( <<"/", "etc", "/", "passwd">> :> File(64) )

\* fs.stat(absPath, (err, stats) => ...)
fsStat(abs) ==
  IF abs \in DOMAIN FS
  THEN [err |-> FALSE, isFile |-> FS[abs].kind = "file", size |-> FS[abs].size]
  ELSE [err |-> TRUE, isFile |-> FALSE, size |-> 0]

----------------------------------------------------------------------------
(* Inputs.                                                                 *)

LongRoom(n) == [i \in 1 .. n |-> "z"]

RoleInputs == {Param("tv"), Param("remote"), NoRole}

RoomInputs == {NoRoom, Param(<<>>), Param(<<"a">>), Param(<<"A">>), Param(<<".", ".">>),
               Param(LongRoom(MaxRoomLen)), Param(LongRoom(MaxRoomLen + 1))}

NoRange == [has |-> FALSE, v |-> <<>>]

\* Range headers: absent, empty, bytes=0-99, bytes=500-, bytes=-500,
\* bytes=100-50, bytes=2000-, bytes=0-5000000, bytes=500-x, items=0-5.
RangeInputs ==
  { NoRange,
    Param(<<>>),
    Param(BytesEq \o <<"0", "-", "9", "9">>),
    Param(BytesEq \o <<"5", "0", "0", "-">>),
    Param(BytesEq \o <<"-", "5", "0", "0">>),
    Param(BytesEq \o <<"1", "0", "0", "-", "5", "0">>),
    Param(BytesEq \o <<"2", "0", "0", "0", "-">>),
    Param(BytesEq \o <<"0", "-", "5", "0", "0", "0", "0", "0", "0">>),
    Param(BytesEq \o <<"5", "0", "0", "-", "x">>),
    Param(<<"i", "t", "e", "m", "s", "=", "0", "-", "5">>) }

\* Pathnames that reach the /videos/ branch of the request handler.
PathInputs ==
  { VideosPrefix \o <<"a", "/", "x.mp4">>,
    VideosPrefix \o <<"_default", "/", "big.mp4">>,
    VideosPrefix \o <<"a", "/", "empty.mp4">>,
    VideosPrefix \o <<"a", "/", "missing.mp4">>,
    VideosPrefix \o <<"_default", "/", "a">>,
    VideosPrefix \o <<"x.mp4">>,
    VideosPrefix \o <<"a", "/", "%2e%2e", "/", "%2e%2e", "/", "server.js">>,
    VideosPrefix \o <<"%2e%2e", "/", "server.js">>,
    VideosPrefix \o <<"..", "%2F", "..", "%2F", "etc", "/", "passwd">> }

NoFields == [k \in Keys |-> LAbsent]
RawObject(f) == [syntax |-> "object", fields |-> f]
NoRaw == [syntax |-> "none", fields |-> NoFields]

MsgInputs ==
  { [syntax |-> "bad", fields |-> NoFields],
    [syntax |-> "null", fields |-> NoFields],
    RawObject([NoFields EXCEPT !["type"] = LStr("state"), !["paused"] = LTrue,
                 !["volume"] = LNum(5), !["rate"] = LOverflow, !["time"] = LStr("7"),
                 !["current"] = LStr("m")]),
    RawObject([NoFields EXCEPT !["type"] = LStr("command"), !["action"] = LStr("play")]),
    RawObject([NoFields EXCEPT !["type"] = LStr("command"), !["action"] = LStr("seek"),
                 !["value"] = LNum(3)]),
    RawObject([NoFields EXCEPT !["type"] = LStr("command"), !["action"] = LStr("volume_set"),
                 !["value"] = LOverflow]),
    RawObject([NoFields EXCEPT !["type"] = LStr("command"), !["action"] = LStr("reboot")]),
    RawObject([NoFields EXCEPT !["type"] = LStr("ping")]) }

----------------------------------------------------------------------------
(* The state machine.                                                      *)

NewConn == [readyState |-> "NEW", role |-> "", room |-> <<>>,
            listening |-> FALSE, closeCode |-> 0]

Event(kind, ws, qrole, qroom, raw) ==
  [kind |-> kind, ws |-> ws, qrole |-> qrole, qroom |-> qroom, raw |-> raw]

\* Nothing written by any client, nothing written to any client.
EmptyWire == [n |-> 0, inq |-> [c \in Conns |-> <<>>], outq |-> [c \in Conns |-> <<>>]]

NoResponse ==
  [status |-> 0, contentLength |-> 0, acceptRanges |-> FALSE,
   contentRange |-> <<>>, stream |-> "none", window |-> NoWindow]

\* No request yet: nothing written, no handle open.
NoRequest ==
  [pc |-> "idle", n |-> 0, pathname |-> <<>>, range |-> NoRange, abs |-> <<>>,
   stats |-> fsStat(<<>>), response |-> NoResponse, writeHeads |-> 0,
   handle |-> 0, open |-> 0]

Init ==
  /\ rooms = <<>>
  /\ conns = [c \in Conns |-> NewConn]
  /\ sent = <<>>
  /\ last = Event("start", 0, NoRole, NoRoom, NoRaw)
  /\ http = NoRequest
  /\ lastStatus = [c \in Conns |-> "none"]
  /\ wire = EmptyWire

\* wss.on('connection', (ws, req) => ...) for the next WebSocket object.
Connection(ws, qrole, qroom) ==
  /\ conns[ws].readyState = "NEW"
  /\ \A c \in Conns : c < ws => conns[c].readyState # "NEW"
  /\ LET role == StringOr(qrole, "")
         room == toLowerCase(StringOr(qroom, <<>>))
     IN IF ~ValidRoom(room)
        THEN /\ conns' = [conns EXCEPT ![ws] = [@ EXCEPT !.readyState = "CLOSING",
                                                         !.closeCode = PolicyViolation]]
             /\ rooms' = rooms
             /\ sent' = <<>>
        ELSE LET made == getRoomBucket(rooms, room)
                 joined == [made EXCEPT ![room] = joinBucket(@, role, ws)]
                 cs == [conns EXCEPT ![ws] = [readyState |-> "OPEN", role |-> role,
                                              room |-> room, listening |-> TRUE,
                                              closeCode |-> 0]]
             IN /\ rooms' = joined
                /\ conns' = cs
                /\ sent' = joinSends(joined, cs, role, room, ws)
  /\ last' = Event("connection", ws, qrole, qroom, NoRaw)

\* A 'message' event of ws with payload raw.
Message(ws, raw) ==
  /\ conns[ws].readyState \in {"OPEN", "CLOSING"}
  /\ sent' = IF conns[ws].listening
             THEN onMessage(rooms, conns, ws, conns[ws].role, conns[ws].room, raw)
             ELSE <<>>
  /\ last' = Event("message", ws, NoRole, NoRoom, raw)
  /\ UNCHANGED <<rooms, conns>>

\* The closing handshake of ws begins: readyState leaves OPEN before the
\* 'close' event is emitted.
Closing(ws) ==
  /\ conns[ws].readyState = "OPEN"
  /\ conns' = [conns EXCEPT ![ws].readyState = "CLOSING"]
  /\ sent' = <<>>
  /\ last' = Event("closing", ws, NoRole, NoRoom, NoRaw)
  /\ UNCHANGED rooms

\* The 'close' event of ws.
Close(ws) ==
  /\ conns[ws].readyState \in {"OPEN", "CLOSING"}
  /\ LET cs == [conns EXCEPT ![ws].readyState = "CLOSED"]
         r == IF conns[ws].listening
              THEN onClose(rooms, cs, ws, conns[ws].room)
              ELSE [rooms |-> rooms, sent |-> <<>>]
     IN /\ conns' = cs
        /\ rooms' = r.rooms
        /\ sent' = r.sent
  /\ last' = Event("close", ws, NoRole, NoRoom, NoRaw)

Next ==
  \/ \E ws \in Conns, qrole \in RoleInputs, qroom \in RoomInputs :
       Connection(ws, qrole, qroom) /\ UNCHANGED <<http, lastStatus, wire>>
  \/ \E ws \in Conns, raw \in MsgInputs :
       Message(ws, raw) /\ UNCHANGED <<http, lastStatus, wire>>
  \/ \E ws \in Conns : Closing(ws) /\ UNCHANGED <<http, lastStatus, wire>>
  \/ \E ws \in Conns : Close(ws) /\ UNCHANGED <<http, lastStatus, wire>>

Spec == Init /\ [][Next]_vars

----------------------------------------------------------------------------
(* The HTTP side: one /videos/ request at a time, from the request handler *)
(* through the fs.stat callback to the end of the piped read stream.       *)

\* Requests served in one run.
MaxRequests == 2

\* app.use((req, res) => ...) for a pathname that starts with /videos/: with
\* four parts or more the path is resolved and streamVideo issues fs.stat;
\* otherwise the handler falls through to the 404 of its last lines.
Request(pathname, range) ==
  /\ http.pc \in {"idle", "done", "aborted"}
  /\ http.n < MaxRequests
  /\ startsWith(pathname, VideosPrefix)
  /\ http' = IF hasFourParts(pathname)
             THEN [NoRequest EXCEPT !.pc = "stat", !.n = http.n + 1,
                                    !.pathname = pathname, !.range = range,
                                    !.abs = resolveVideoPath(pathname),
                                    !.open = http.open]
             ELSE [NoRequest EXCEPT !.pc = "done", !.n = http.n + 1,
                                    !.pathname = pathname, !.range = range,
                                    !.response = [NoResponse EXCEPT !.status = 404],
                                    !.writeHeads = 1,
                                    !.open = http.open]

\* The fs.stat callback of streamVideo: writeHead, then res.end for 404 and
\* 416, or fs.createReadStream(...).pipe(res), which throws out of the
\* callback for a window it rejects and opens the file otherwise.
StatCallback ==
  /\ http.pc = "stat"
  /\ LET stats == fsStat(http.abs)
         r == statCallback(stats, http.range)
         opens == r.stream = "whole" \/ (r.stream = "window" /\ ~createReadStreamThrows(r.window))
     IN http' = [http EXCEPT
                   !.stats = stats,
                   !.response = r,
                   !.writeHeads = @ + 1,
                   !.pc = IF r.stream = "none" THEN "done"
                          ELSE IF opens THEN "streaming" ELSE "threw",
                   !.handle = IF opens THEN 1 ELSE 0,
                   !.open = IF opens THEN @ + 1 ELSE @]

\* The read stream reaches its end: autoClose releases the handle and pipe
\* ends the response.
StreamEnd ==
  /\ http.pc = "streaming"
  /\ http' = [http EXCEPT !.pc = "done", !.handle = 0, !.open = @ - 1]

\* The client disconnects while the body is being sent: pipe only unpipes
\* the read stream from the closed response; the stream stays paused with
\* its file open.
ClientAbort ==
  /\ http.pc = "streaming"
  /\ http' = [http EXCEPT !.pc = "aborted"]

\* A read fails: autoClose destroys the stream and releases the handle; the
\* 'error' event has no listener, so the process ends.
ReadError ==
  /\ http.pc = "streaming"
  /\ http' = [http EXCEPT !.pc = "crashed", !.handle = 0, !.open = 0]

HttpNext ==
  \/ \E pathname \in PathInputs, range \in RangeInputs :
       Request(pathname, range) /\ UNCHANGED <<relay, lastStatus, wire>>
  \/ StatCallback /\ UNCHANGED <<relay, lastStatus, wire>>
  \/ StreamEnd /\ UNCHANGED <<relay, lastStatus, wire>>
  \/ ClientAbort /\ UNCHANGED <<relay, lastStatus, wire>>
  \/ ReadError /\ UNCHANGED <<relay, lastStatus, wire>>

HttpSpec == Init /\ [][HttpNext]_vars

----------------------------------------------------------------------------
(* The 'close' handler run again.                                          *)

\* The 'close' handler of ws runs a second time, after its first run.
CloseAgain(ws) ==
  /\ conns[ws].readyState = "CLOSED"
  /\ conns[ws].listening
  /\ LET r == onClose(rooms, conns, ws, conns[ws].room)
     IN /\ rooms' = r.rooms
        /\ sent' = r.sent
  /\ last' = Event("close again", ws, NoRole, NoRoom, NoRaw)
  /\ UNCHANGED conns

LeaveNext ==
  \/ \E ws \in Conns, qrole \in RoleInputs, qroom \in RoomInputs :
       Connection(ws, qrole, qroom) /\ UNCHANGED <<http, lastStatus, wire>>
  \/ \E ws \in Conns, raw \in MsgInputs :
       Message(ws, raw) /\ UNCHANGED <<http, lastStatus, wire>>
  \/ \E ws \in Conns : Closing(ws) /\ UNCHANGED <<http, lastStatus, wire>>
  \/ \E ws \in Conns : Close(ws) /\ UNCHANGED <<http, lastStatus, wire>>
  \/ \E ws \in Conns : CloseAgain(ws) /\ UNCHANGED <<http, lastStatus, wire>>

LeaveSpec == Init /\ [][LeaveNext]_vars

----------------------------------------------------------------------------
(* The status each client saw last.                                        *)

\* What the sends s leave as the last status of each receiver.
RECURSIVE noteStatus(_, _)
noteStatus(ls, s) ==
  IF s = <<>> THEN ls
  ELSE LET m == s[1]
           seen == IF m.data["type"] = LStr("status")
                   THEN [ls EXCEPT ![m.to] = IF m.data["tvConnected"] = LTrue
                                             THEN "true" ELSE "false"]
                   ELSE ls
       IN noteStatus(seen, Tail(s))

StatusNext ==
  \/ \E ws \in Conns, qrole \in RoleInputs, qroom \in RoomInputs :
       /\ Connection(ws, qrole, qroom)
       /\ lastStatus' = noteStatus(lastStatus, sent')
       /\ UNCHANGED <<http, wire>>
  \/ \E ws \in Conns, raw \in MsgInputs :
       /\ Message(ws, raw)
       /\ lastStatus' = noteStatus(lastStatus, sent')
       /\ UNCHANGED <<http, wire>>
  \/ \E ws \in Conns :
       /\ Closing(ws)
       /\ lastStatus' = noteStatus(lastStatus, sent')
       /\ UNCHANGED <<http, wire>>
  \/ \E ws \in Conns :
       /\ Close(ws)
       /\ lastStatus' = noteStatus(lastStatus, sent')
       /\ UNCHANGED <<http, wire>>

StatusSpec == Init /\ [][StatusNext]_vars

----------------------------------------------------------------------------
(* The order of messages on the sockets.                                   *)

MaxMsgs == 2

\* The messages and the query strings of the clients whose order is followed:
\* one state message and one command, TVs and Remotes of one room.
OrderMsgInputs ==
  { RawObject([NoFields EXCEPT !["type"] = LStr("state"), !["paused"] = LTrue]),
    RawObject([NoFields EXCEPT !["type"] = LStr("command"), !["action"] = LStr("play")]) }

OrderRoleInputs == { Param("tv"), Param("remote") }

OrderRoomInputs == { Param(<<"a">>) }

\* ws.send appends to the receiver's socket what the handler of message id,
\* sent by from, sends, in the order of the sends.
enqueueSends_Prepend(outq, s, from, id) ==
  [c \in Conns |->
     SelectSeq([i \in 1 .. Len(s) |-> [to |-> s[i].to, from |-> from, id |-> id]],
               LAMBDA m : m.to = c)
     \o outq[c]]

enqueueSends(outq, s, from, id) ==
  [c \in Conns |->
     outq[c] \o
     SelectSeq([i \in 1 .. Len(s) |-> [to |-> s[i].to, from |-> from, id |-> id]],
               LAMBDA m : m.to = c)]

\* The client of ws writes a message to its socket.
ClientSend(ws, raw) ==
  /\ conns[ws].readyState = "OPEN"
  /\ wire.n < MaxMsgs
  /\ wire' = [wire EXCEPT !.n = wire.n + 1,
                          !.inq[ws] = Append(wire.inq[ws], [id |-> wire.n + 1, raw |-> raw])]
  /\ UNCHANGED relay

\* The server reads the next message of ws's socket and runs the 'message'
\* handler on it to completion.
Deliver(ws) ==
  /\ wire.inq[ws] # <<>>
  /\ Message(ws, Head(wire.inq[ws]).raw)
  /\ wire' = [wire EXCEPT !.inq[ws] = Tail(wire.inq[ws]),
                          !.outq = enqueueSends(wire.outq, sent', ws, Head(wire.inq[ws]).id)]

OrderNext ==
  \/ \E ws \in Conns, qrole \in OrderRoleInputs, qroom \in OrderRoomInputs :
       Connection(ws, qrole, qroom) /\ UNCHANGED <<http, lastStatus, wire>>
  \/ \E ws \in Conns, raw \in OrderMsgInputs :
       ClientSend(ws, raw) /\ UNCHANGED <<http, lastStatus>>
  \/ \E ws \in Conns : Deliver(ws) /\ UNCHANGED <<http, lastStatus>>
  \/ \E ws \in Conns : Closing(ws) /\ UNCHANGED <<http, lastStatus, wire>>
  \/ \E ws \in Conns : Close(ws) /\ UNCHANGED <<http, lastStatus, wire>>

OrderSpec == Init /\ [][OrderNext]_vars

----------------------------------------------------------------------------
(* Properties.  A step is identified by the event it records in last'; the *)
(* unprimed variables are the state the handler started from.              *)

Members(rs, r) == rs[r].tvs \cup rs[r].remotes

\* The registry entry of room r, or an empty bucket when the key is absent.
BucketOf(rs, r) == IF r \in DOMAIN rs THEN rs[r] ELSE [tvs |-> {}, remotes |-> {}]

\* How many of the sends in s went to connection c.
SendsTo(s, c) == Cardinality({i \in 1 .. Len(s) : s[i].to = c})

IsStatus(d) == d["type"] = LStr("status")
IsStatusOf(d, b) == IsStatus(d) /\ d["tvConnected"] = (IF b THEN LTrue ELSE LFalse)

\* ws ran the valid-room path of the 'connection' handler in this step.
JoinStep(ws) == last'.kind = "connection" /\ last'.ws = ws /\ conns'[ws].listening

\* The registered 'close' handler of ws ran in this step.
CloseStep(ws) == last'.kind = "close" /\ last'.ws = ws /\ conns[ws].listening

\* The registered 'message' handler of ws ran in this step.
MessageStep(ws) == last'.kind = "message" /\ last'.ws = ws /\ conns[ws].listening

\* C1: every room key in the registry has a connection in its TV set or its
\* Remote set; the close of a room's last connection deletes the key; a join
\* to a key that is absent starts from a bucket holding the joiner alone.
C1_NoEmptyRoomPersists ==
  [][ /\ \A r \in DOMAIN rooms' : Members(rooms', r) # {}
      /\ \A ws \in Conns :
           /\ ( /\ CloseStep(ws)
                /\ conns[ws].room \in DOMAIN rooms
                /\ Members(rooms, conns[ws].room) = {ws} )
              => conns[ws].room \notin DOMAIN rooms'
           /\ (JoinStep(ws) /\ conns'[ws].room \notin DOMAIN rooms)
              => /\ conns'[ws].room \in DOMAIN rooms'
                 /\ Members(rooms', conns'[ws].room) = {ws} ]_vars

\* C1 witness: a join made a fresh bucket for a key that a connection, now
\* closed, had been registered under before.
C1_Witness ==
  /\ last.kind = "connection"
  /\ conns[last.ws].listening
  /\ Members(rooms, conns[last.ws].room) = {last.ws}
  /\ \E c \in Conns \ {last.ws} :
       /\ conns[c].readyState = "CLOSED"
       /\ conns[c].listening
       /\ conns[c].room = conns[last.ws].room

\* C2: a connection is a member of at most one set of one room, and of none
\* once its close event has been processed.
C2_AtMostOneMembership ==
  \A ws \in Conns :
    LET held == {rk \in (DOMAIN rooms) \X {"tvs", "remotes"} : ws \in rooms[rk[1]][rk[2]]}
    IN /\ Cardinality(held) <= 1
       /\ conns[ws].readyState = "CLOSED" => held = {}

\* C2 witness: a registered Remote has been closed while another connection
\* is still a member of a room.
C2_Witness ==
  /\ last.kind = "close"
  /\ conns[last.ws].listening
  /\ conns[last.ws].role # "tv"
  /\ \E r \in DOMAIN rooms : Members(rooms, r) # {}

\* C3: the join of a Remote sends it, as the first and only message of the
\* handler to it, a status whose tvConnected is (the room's TV set is
\* non-empty).
C3_RemoteJoinStatus ==
  [][ \A ws \in Conns :
        (JoinStep(ws) /\ ws \in rooms'[conns'[ws].room].remotes)
        => /\ sent' # <<>>
           /\ sent'[1].to = ws
           /\ IsStatusOf(sent'[1].data, rooms'[conns'[ws].room].tvs # {})
           /\ SendsTo(sent', ws) = 1 ]_vars

\* C3 witness: a Remote joined a room that holds a TV and was sent
\* status{tvConnected:true}.
C3_Witness ==
  /\ last.kind = "connection"
  /\ conns[last.ws].listening
  /\ conns[last.ws].role = "remote"
  /\ rooms[conns[last.ws].room].tvs # {}
  /\ sent = <<[to |-> last.ws, data |-> [NoFields EXCEPT !["type"] = LStr("status"),
                                                          !["tvConnected"] = LTrue]]>>

C5_StatusOnlyOnThreeOccasions ==
  [][ \A i \in 1 .. Len(sent') :
        IsStatus(sent'[i].data)
        => LET to == sent'[i].to
               ws == last'.ws
           IN \/ JoinStep(ws) /\ to = ws
              \/ /\ JoinStep(ws)
                 /\ ws \in rooms'[conns'[ws].room].tvs
                 /\ to \in rooms'[conns'[ws].room].remotes
              \/ /\ CloseStep(ws)
                 /\ conns[ws].room \in DOMAIN rooms
                 /\ rooms[conns[ws].room].tvs = {ws}
                 /\ to \in rooms[conns[ws].room].remotes ]_vars

\* The literal of key k in the payload of the message event of this step.
RawField(k) == last'.raw.fields[k]

\* The parseable message of this step is an object whose type is t.
RawTypeIs(t) == last'.raw.syntax = "object" /\ RawField("type") = LStr(t)

\* C6: a "state" message of a TV is answered by exactly one tv_state to each
\* open Remote of the TV's room and by nothing to anyone else; volume, rate,
\* time and duration appear in it only for a finite number in the input.
C6_StateFanOut ==
  [][ \A ws \in Conns :
        (MessageStep(ws) /\ conns[ws].role = "tv" /\ RawTypeIs("state"))
        => LET bucket == BucketOf(rooms, conns[ws].room)
               targets == {r \in bucket.remotes : conns[r].readyState = "OPEN"}
           IN /\ \A c \in Conns : SendsTo(sent', c) = (IF c \in targets THEN 1 ELSE 0)
              /\ \A i \in 1 .. Len(sent') :
                   /\ sent'[i].data["type"] = LStr("tv_state")
                   /\ \A k \in {"volume", "rate", "time", "duration"} :
                        sent'[i].data[k] # LAbsent => RawField(k).lit = "num" ]_vars

\* C6 witness: a TV's state message, carrying a finite volume and a
\* non-finite rate, reached an open Remote of its room.
C6_Witness ==
  /\ last.kind = "message"
  /\ conns[last.ws].role = "tv"
  /\ last.raw.syntax = "object"
  /\ last.raw.fields["type"] = LStr("state")
  /\ last.raw.fields["rate"] = LOverflow
  /\ \E r \in rooms[conns[last.ws].room].remotes :
       /\ Len(sent) = 1
       /\ sent[1].to = r
       /\ sent[1].data["volume"] = LNum(5)
       /\ sent[1].data["rate"] = LAbsent

\* C7: a "command" of a Remote with an action outside the allow-list sends
\* nothing; with an action in it, the message goes with every field as it
\* came, once, to each open TV of the room and to nobody else.
C7_CommandForwardedUnchanged ==
  [][ \A ws \in Conns :
        (MessageStep(ws) /\ conns[ws].role # "tv" /\ RawTypeIs("command"))
        => IF ~(RawField("action").lit = "str" /\ RawField("action").s \in allowed)
           THEN sent' = <<>>
           ELSE LET bucket == BucketOf(rooms, conns[ws].room)
                    targets == {t \in bucket.tvs : conns[t].readyState = "OPEN"}
                IN /\ \A c \in Conns : SendsTo(sent', c) = (IF c \in targets THEN 1 ELSE 0)
                   /\ \A i \in 1 .. Len(sent') : sent'[i].data = last'.raw.fields ]_vars

\* The routing part of C7 alone: who is sent the command, and how often.
C7_CommandRouting ==
  [][ \A ws \in Conns :
        (MessageStep(ws) /\ conns[ws].role # "tv" /\ RawTypeIs("command"))
        => IF ~(RawField("action").lit = "str" /\ RawField("action").s \in allowed)
           THEN sent' = <<>>
           ELSE LET bucket == BucketOf(rooms, conns[ws].room)
                    targets == {t \in bucket.tvs : conns[t].readyState = "OPEN"}
                IN /\ \A c \in Conns : SendsTo(sent', c) = (IF c \in targets THEN 1 ELSE 0)
                   /\ \A i \in 1 .. Len(sent') :
                        \A k \in Keys :
                          RawField(k).lit # "overflow" => sent'[i].data[k] = RawField(k) ]_vars

\* The room of the query as the pattern sees it.
QueryRoom(q) == IF q.has THEN toLowerCase(q.v) ELSE <<>>

\* Missing, or not matching ^[a-z0-9_-]{1,64}$ after lowercasing.
BadRoom(q) ==
  LET room == QueryRoom(q)
  IN \/ Len(room) < 1
     \/ Len(room) > MaxRoomLen
     \/ \E i \in 1 .. Len(room) : room[i] \notin RoomCharClass

\* C8: a connection opened with a missing or non-matching room is closed
\* with code 1008 and never registered: its 'connection' event leaves the
\* registry alone and sends nothing, it is in no set, and its later message
\* and close events change nothing and send nothing.
C8_InvalidRoomRejected ==
  [][ \A ws \in Conns :
        /\ (last'.kind = "connection" /\ last'.ws = ws /\ BadRoom(last'.qroom))
           => /\ conns'[ws].closeCode = PolicyViolation
              /\ conns'[ws].readyState # "OPEN"
              /\ ~conns'[ws].listening
              /\ rooms' = rooms
              /\ sent' = <<>>
        /\ (last'.ws = ws /\ conns[ws].closeCode = PolicyViolation)
           => /\ rooms' = rooms
              /\ sent' = <<>>
              /\ \A r \in DOMAIN rooms' : ws \notin Members(rooms', r) ]_vars

\* C8 witness: a message event of a rejected connection while a room with a
\* member exists.
C8_Witness ==
  /\ last.kind = "message"
  /\ conns[last.ws].closeCode = PolicyViolation
  /\ last.raw.syntax = "object"
  /\ DOMAIN rooms # {}

\* C9: a payload that is not JSON sends nothing, leaves the registry as it
\* was and leaves the sender as it was: open, listening and a member.
C9_UnparseableDropped ==
  [][ \A ws \in Conns :
        (MessageStep(ws) /\ last'.raw.syntax = "bad")
        => /\ sent' = <<>>
           /\ rooms' = rooms
           /\ conns' = conns
           /\ conns'[ws].listening
           /\ ws \in Members(rooms', conns'[ws].room) ]_vars

\* C9 witness: an open Remote in a room with an open TV sent a payload that
\* is not JSON.
C9_Witness ==
  /\ last.kind = "message"
  /\ last.raw.syntax = "bad"
  /\ conns[last.ws].listening
  /\ conns[last.ws].readyState = "OPEN"
  /\ conns[last.ws].role = "remote"
  /\ \E t \in rooms[conns[last.ws].room].tvs : conns[t].readyState = "OPEN"
  /\ sent = <<>>

\* C10: "state" from a Remote, "command" from a TV and every other type
\* from either role send nothing and leave the registry as it was.
C10_RoleGatedRouting ==
  [][ \A ws \in Conns :
        ( /\ MessageStep(ws)
          /\ last'.raw.syntax # "bad"
          /\ \/ conns[ws].role # "tv" /\ RawTypeIs("state")
             \/ conns[ws].role = "tv" /\ RawTypeIs("command")
             \/ ~RawTypeIs("state") /\ ~RawTypeIs("command") )
        => /\ sent' = <<>>
           /\ rooms' = rooms
           /\ conns' = conns ]_vars

\* C10 witness: an open TV sent an allow-listed command and nothing was
\* forwarded, though its room holds an open TV.
C10_Witness ==
  /\ last.kind = "message"
  /\ conns[last.ws].listening
  /\ conns[last.ws].role = "tv"
  /\ conns[last.ws].readyState = "OPEN"
  /\ last.raw.syntax = "object"
  /\ last.raw.fields["type"] = LStr("command")
  /\ last.raw.fields["action"] = LStr("play")
  /\ last.ws \in rooms[conns[last.ws].room].tvs
  /\ sent = <<>>

----------------------------------------------------------------------------
(* Properties of the HTTP side, under HttpSpec.                            *)

\* streamVideo has answered the request in progress.
Answered == http.abs # <<>> /\ http.pc \notin {"idle", "stat"}

Is206 == Answered /\ http.response.status = 206

\* The size of the file the request resolved to.
FileSize == FS[http.abs].size

\* The Range header has a start made of digits and nothing after the dash.
OpenEnded(range) ==
  LET parts == split(removeFirst(range, BytesEq), "-")
  IN /\ startsWith(range, BytesEq)
     /\ Len(parts) = 2
     /\ parts[1] # <<>>
     /\ DigitPrefix(parts[1]) = parts[1]
     /\ parts[2] = <<>>

\* C11: for bytes=<start>- the window ends at min(start + 1 MiB - 1,
\* fileSize - 1), so the 206 response never covers more than 1,048,576 bytes.
C11_OpenEndedCapped ==
  (Is206 /\ OpenEnded(http.range.v))
  => LET start == DecimalValue(split(removeFirst(http.range.v, BytesEq), "-")[1])
     IN /\ http.response.window.end = Min(start + MiB - 1, FileSize - 1)
        /\ http.response.contentLength <= MiB

\* C12: a 206 response reports start >= 0 and end <= fileSize - 1, its
\* Content-Range is "bytes <start>-<end>/<fileSize>" and its Content-Length
\* is end - start + 1 for those values; bytes=0-99 on 1000 bytes gives
\* "bytes 0-99/1000" with length 100, and an end beyond the file becomes
\* fileSize - 1.
C12_RangeHeaders ==
  Is206
  => LET w == http.response.window
     IN /\ w.start >= 0
        /\ w.end <= FileSize - 1
        /\ http.response.contentRange =
             <<"b","y","t","e","s"," ">> \o Decimal(w.start) \o <<"-">> \o Decimal(w.end)
               \o <<"/">> \o Decimal(FileSize)
        /\ http.response.contentLength = w.end - w.start + 1
        /\ (FileSize = 1000 /\ http.range.v = BytesEq \o <<"0", "-", "9", "9">>)
           => /\ http.response.contentRange =
                   <<"b","y","t","e","s"," ","0","-","9","9","/","1","0","0","0">>
              /\ http.response.contentLength = 100
        /\ http.range.v = BytesEq \o <<"0", "-", "5", "0", "0", "0", "0", "0", "0">>
           => w.end = FileSize - 1

\* C12 witness: bytes=0-99 on the 1000-byte file was answered 206.
C12_Witness ==
  /\ Is206
  /\ FileSize = 1000
  /\ http.range.v = BytesEq \o <<"0", "-", "9", "9">>
  /\ http.response.contentLength = 100

\* The path cannot be stat'ed or is not a regular file.
NotAFile == http.abs \notin DOMAIN FS \/ FS[http.abs].kind # "file"

C14_HandleReleased ==
  /\ http.pc = "streaming" => http.handle = 1
  /\ http.pc \in {"done", "aborted", "crashed"} => http.handle = 0
  /\ http.open = http.handle

\* C19: every 206 response describes a non-empty window inside the file.
C19_NonEmptyWindow ==
  Is206
  => /\ 0 <= http.response.window.start
     /\ http.response.window.start <= http.response.window.end
     /\ http.response.window.end <= FileSize - 1
     /\ http.response.contentLength >= 1

\* Tokens of the path inputs that match the room pattern.
RoomNameTokens == {"a"}

\* C20: the path handed to streamVideo lies inside the video library root,
\* and the room key is _default or matches the room pattern.
C20_InsideVideoRoot ==
  http.abs # <<>>
  => /\ startsWith(http.abs, DEFAULT_VIDEO_DIR \o <<"/">>)
     /\ LET roomKey == decodeURIComponent(split(http.pathname, "/")[3])
        IN roomKey = <<"_default">> \/ (Len(roomKey) = 1 /\ roomKey[1] \in RoomNameTokens)

----------------------------------------------------------------------------
(* Properties of the relay that need the second close or the history.      *)

CrossSenderReorder ==
  \E c \in Conns :
    \E i, j \in 1 .. Len(wire.outq[c]) :
      /\ i < j
      /\ wire.outq[c][i].from # wire.outq[c][j].from
      /\ wire.outq[c][i].id > wire.outq[c][j].id

\* C16: a run of the close handler for a connection whose close has been
\* processed already leaves the registry as it was: no connection removed,
\* no room created or deleted.  (LeaveSpec)
C16_SecondLeaveNoEffect ==
  [][ \A ws \in Conns :
        (last'.kind = "close again" /\ last'.ws = ws) => rooms' = rooms ]_vars

\* C16 witness: the handler ran again for a connection whose room had been
\* deleted by its first run and re-created by another connection.
C16_Witness ==
  /\ last.kind = "close again"
  /\ conns[last.ws].room \in DOMAIN rooms
  /\ Members(rooms, conns[last.ws].room) # {}
  /\ last.ws \notin Members(rooms, conns[last.ws].room)
  /\ \A c \in Members(rooms, conns[last.ws].room) : c > last.ws

\* C17: every open Remote that is a member of a room has, as the last
\* status sent to it, tvConnected = (the room's TV set is non-empty).
\* (StatusSpec)
C17_StatusCoherent ==
  \A r \in DOMAIN rooms :
    \A ws \in rooms[r].remotes :
      conns[ws].readyState = "OPEN"
      => lastStatus[ws] = (IF rooms[r].tvs # {} THEN "true" ELSE "false")

\* C17 witness: a TV closed, and the open Remote of its room, told true
\* before, was told false.
C17_Witness ==
  /\ last.kind = "close"
  /\ conns[last.ws].role = "tv"
  /\ conns[last.ws].room \in DOMAIN rooms
  /\ \E ws \in rooms[conns[last.ws].room].remotes :
       /\ conns[ws].readyState = "OPEN"
       /\ ws < last.ws
       /\ lastStatus[ws] = "false"

\* C18: every member of a Remote set was opened with role = remote and
\* every member of a TV set with role = tv; a connection opened with another
\* or no role is sent nothing.
C18_RolesMatchSets ==
  [][ /\ \A r \in DOMAIN rooms' :
           /\ \A ws \in rooms'[r].remotes : conns'[ws].role = "remote"
           /\ \A ws \in rooms'[r].tvs : conns'[ws].role = "tv"
      /\ \A i \in 1 .. Len(sent') : conns'[sent'[i].to].role \in {"tv", "remote"} ]_vars

====
